---- MODULE Spec2Model ----
(***************************************************************************)
(* Merge joins over ordered iterators (src/src/lib.rs).                    *)
(*                                                                         *)
(* An iterator is a record.  A container iterator is                       *)
(*   [type |-> "SetSource" or "MapSource", items |-> the elements left]    *)
(* and a join iterator is the struct the source declares, holding its two  *)
(* input iterators.  An Option is a sequence of length at most one:        *)
(* None is << >> and Some(x) is << x >>.  A map element is << key, val >>. *)
(* The result of a call of next() is [it |-> the iterator afterwards,      *)
(* item |-> the Option returned, panic |-> whether an expect() failed].    *)
(***************************************************************************)
EXTENDS Integers, Sequences, FiniteSets

VARIABLES inA, inB, inC, join, out, panicked, twin, twinOut, calls, cmps

vars == <<inA, inB, inC, join, out, panicked, twin, twinOut, calls, cmps>>

(* Bounds of the model. *)
MaxKey == 5
MaxLen == 4
MaxAnyKey == 3
MaxAnyLen == 3
MaxLenC == 3
MaxIdlePulls == 3
MaxLiveKey == 2
MaxLiveLen == 2

None == << >>
Some(x) == << x >>

Less == "Less"
Equal == "Equal"
Greater == "Greater"

(* Ord::cmp on keys. *)
Cmp(x, y) == IF x < y THEN Less ELSE IF x = y THEN Equal ELSE Greater

(* ---------------------------------------------------------------------- *)
(* Inputs.                                                                 *)
(* ---------------------------------------------------------------------- *)

SeqsUpTo(S, n) == UNION {[1..m -> S] : m \in 0..n}

StrictlyIncreasing(ks) == \A i \in 1..(Len(ks) - 1) : ks[i] < ks[i + 1]

(* Key sequences a sorted container can yield, and arbitrary ones. *)
OrderedKeySeqs == {ks \in SeqsUpTo(1..MaxKey, MaxLen) : StrictlyIncreasing(ks)}
OrderedKeySeqsC == {ks \in OrderedKeySeqs : Len(ks) <= MaxLenC}
AnyKeySeqs == SeqsUpTo(1..MaxAnyKey, MaxAnyLen)
LiveKeySeqs == SeqsUpTo(1..MaxLiveKey, MaxLiveLen)

(* The values are opaque to the joins (A::Val, B::Val are unconstrained   *)
(* type parameters), so each element carries a value that names the side  *)
(* and the position it comes from.                                        *)
MapOf(tag, ks) == [i \in 1..Len(ks) |-> <<ks[i], <<tag, i>>>>]

KeysOf(m) == [i \in 1..Len(m) |-> m[i][1]]

Range(s) == {s[i] : i \in 1..Len(s)}

SetSource(ks) == [type |-> "SetSource", items |-> ks]
MapSource(m) == [type |-> "MapSource", items |-> m]

(* The types that implement each trait. *)
OrderedSetIterator == {"SetSource", "InnerJoinSetIterator"}
OrderedMapIterator == {"MapSource", "InnerJoinMapIterator", "InnerJoinMapSetIterator"}

(* ---------------------------------------------------------------------- *)
(* The trait methods that build the joins.                                 *)
(* ---------------------------------------------------------------------- *)

Peekable(it) == [iter |-> it, peeked |-> None]

MapInnerJoinMap(self, map) == [type |-> "InnerJoinMapIterator", a |-> self, b |-> map]

MapInnerJoinSet(self, set) == [type |-> "InnerJoinMapSetIterator", map |-> self, set |-> set]

MapOuterJoin(self, right) ==
    [type |-> "OuterJoinIterator", left |-> Peekable(self), right |-> Peekable(right)]

(* Variant of the constructor: it takes the first key of the set to prime *)
(* the join, and the struct has no field to keep it.                      *)
SetInnerJoinMapPrimed(self, map) ==
    [type |-> "InnerJoinMapSetIterator", map |-> map,
     set |-> [self EXCEPT !.items = IF @ = << >> THEN @ ELSE Tail(@)]]

SetInnerJoinMap(self, map) == [type |-> "InnerJoinMapSetIterator", map |-> map, set |-> self]

SetInnerJoinSet(self, map) == [type |-> "InnerJoinSetIterator", a |-> self, b |-> map]

(* ---------------------------------------------------------------------- *)
(* next() of the iterators.                                                *)
(* ---------------------------------------------------------------------- *)

(* What a call of next() on a join gives: the join afterwards, the Option *)
(* returned, and what the call did on the way: the calls of next() it     *)
(* made on its inputs, in order, as << input, Option returned >>, and the *)
(* number of key comparisons.                                             *)
Ret(it, item) ==
    [it |-> it, item |-> item, panic |-> FALSE, calls |-> << >>, cmps |-> 0]

(* A failed expect(). *)
Panic(it) == [Ret(it, None) EXCEPT !.panic = TRUE]

(* res, preceded by a call of next() on an input, or by a comparison. *)
Called(input, item, res) == [res EXCEPT !.calls = <<<<input, item>>>> \o @]
Compared(res) == [res EXCEPT !.cmps = @ + 1]

RECURSIVE IterNext(_)
RECURSIVE InnerJoinSetLoop(_, _, _)

(* next() of a container iterator: the head of what is left, and None for *)
(* ever once nothing is left.                                             *)
SourceNext(self) ==
    IF self.items = << >>
    THEN Ret(self, None)
    ELSE Ret([self EXCEPT !.items = Tail(@)], Some(Head(self.items)))

(* Variant of next(): one comparison instead of the loop. *)
InnerJoinSetNextNoLoop(self) ==
    LET ra == IterNext(self.a)
        s1 == [self EXCEPT !.a = ra.it]
    IN  Called("a", ra.item,
        IF ra.item = None
        THEN Ret(s1, None)
        ELSE LET rb == IterNext(self.b)
                 s2 == [s1 EXCEPT !.b = rb.it]
             IN  Called("b", rb.item,
                 IF rb.item = None
                 THEN Ret(s2, None)
                 ELSE IF ra.item[1] = rb.item[1] THEN Ret(s2, ra.item) ELSE Ret(s2, None)))

(* Variant of next(): both inputs are pulled before either result is     *)
(* looked at.                                                             *)
InnerJoinSetNextPullsBoth(self) ==
    LET ra == IterNext(self.a)
        rb == IterNext(self.b)
        s2 == [self EXCEPT !.a = ra.it, !.b = rb.it]
    IN  Called("a", ra.item,
        Called("b", rb.item,
        IF ra.item = None \/ rb.item = None
        THEN Ret(s2, None)
        ELSE InnerJoinSetLoop(s2, ra.item[1], rb.item[1])))

(* InnerJoinSetIterator::next, up to the loop. *)
InnerJoinSetNext(self) ==
    LET ra == IterNext(self.a)
        s1 == [self EXCEPT !.a = ra.it]
    IN  Called("a", ra.item,
        IF ra.item = None
        THEN Ret(s1, None)
        ELSE LET rb == IterNext(self.b)
                 s2 == [s1 EXCEPT !.b = rb.it]
             IN  Called("b", rb.item,
                 IF rb.item = None
                 THEN Ret(s2, None)
                 ELSE InnerJoinSetLoop(s2, ra.item[1], rb.item[1])))

(* Variant of the loop: the Greater arm pulls from a instead of b. *)
InnerJoinSetLoopGreaterPullsA(self, key_a, key_b) ==
    Compared(
    CASE Cmp(key_a, key_b) = Less ->
            LET r == IterNext(self.a)
                s == [self EXCEPT !.a = r.it]
            IN  Called("a", r.item,
                IF r.item = None THEN Ret(s, None)
                ELSE InnerJoinSetLoop(s, r.item[1], key_b))
      [] Cmp(key_a, key_b) = Equal -> Ret(self, Some(key_a))
      [] Cmp(key_a, key_b) = Greater ->
            LET r == IterNext(self.a)
                s == [self EXCEPT !.a = r.it]
            IN  Called("a", r.item,
                IF r.item = None THEN Ret(s, None)
                ELSE InnerJoinSetLoop(s, key_a, r.item[1])))

(* Variant of the loop: two tests, < and then =, instead of one cmp. *)
InnerJoinSetLoopTwoTests(self, key_a, key_b) ==
    IF key_a < key_b
    THEN Compared(
            LET r == IterNext(self.a)
                s == [self EXCEPT !.a = r.it]
            IN  Called("a", r.item,
                IF r.item = None THEN Ret(s, None)
                ELSE InnerJoinSetLoop(s, r.item[1], key_b)))
    ELSE Compared(Compared(
            IF key_a = key_b THEN Ret(self, Some(key_a))
            ELSE LET r == IterNext(self.b)
                     s == [self EXCEPT !.b = r.it]
                 IN  Called("b", r.item,
                     IF r.item = None THEN Ret(s, None)
                     ELSE InnerJoinSetLoop(s, key_a, r.item[1]))))

(* The loop of InnerJoinSetIterator::next. *)
InnerJoinSetLoop(self, key_a, key_b) ==
    Compared(
    CASE Cmp(key_a, key_b) = Less ->
            LET r == IterNext(self.a)
                s == [self EXCEPT !.a = r.it]
            IN  Called("a", r.item,
                IF r.item = None THEN Ret(s, None)
                ELSE InnerJoinSetLoop(s, r.item[1], key_b))
      [] Cmp(key_a, key_b) = Equal -> Ret(self, Some(key_a))
      [] Cmp(key_a, key_b) = Greater ->
            LET r == IterNext(self.b)
                s == [self EXCEPT !.b = r.it]
            IN  Called("b", r.item,
                IF r.item = None THEN Ret(s, None)
                ELSE InnerJoinSetLoop(s, key_a, r.item[1])))

(* next() of an iterator used as an input of a join: a container iterator *)
(* or, for a chained join, the set-set join.                              *)
IterNext(it) ==
    IF it.type = "InnerJoinSetIterator" THEN InnerJoinSetNext(it) ELSE SourceNext(it)

RECURSIVE InnerJoinMapLoop(_, _, _, _, _)

(* InnerJoinMapIterator::next, up to the loop. *)
InnerJoinMapNext(self) ==
    LET ra == IterNext(self.a)
        s1 == [self EXCEPT !.a = ra.it]
    IN  Called("a", ra.item,
        IF ra.item = None
        THEN Ret(s1, None)
        ELSE LET rb == IterNext(self.b)
                 s2 == [s1 EXCEPT !.b = rb.it]
             IN  Called("b", rb.item,
                 IF rb.item = None
                 THEN Ret(s2, None)
                 ELSE InnerJoinMapLoop(s2, ra.item[1][1], ra.item[1][2],
                                       rb.item[1][1], rb.item[1][2])))

(* Variant of the loop: the Equal arm fetches the next element of a      *)
(* before it returns the match.                                           *)
InnerJoinMapLoopReadsAhead(self, key_a, data_a, key_b, data_b) ==
    Compared(
    CASE Cmp(key_a, key_b) = Less ->
            LET r == IterNext(self.a)
                s == [self EXCEPT !.a = r.it]
            IN  Called("a", r.item,
                IF r.item = None THEN Ret(s, None)
                ELSE InnerJoinMapLoop(s, r.item[1][1], r.item[1][2], key_b, data_b))
      [] Cmp(key_a, key_b) = Equal ->
            LET r == IterNext(self.a)
            IN  Called("a", r.item,
                       Ret([self EXCEPT !.a = r.it], Some(<<key_a, <<data_a, data_b>>>>)))
      [] Cmp(key_a, key_b) = Greater ->
            LET r == IterNext(self.b)
                s == [self EXCEPT !.b = r.it]
            IN  Called("b", r.item,
                IF r.item = None THEN Ret(s, None)
                ELSE InnerJoinMapLoop(s, key_a, data_a, r.item[1][1], r.item[1][2])))

(* Variant of the loop: the Less arm updates key_a but keeps data_a. *)
InnerJoinMapLoopStaleData(self, key_a, data_a, key_b, data_b) ==
    Compared(
    CASE Cmp(key_a, key_b) = Less ->
            LET r == IterNext(self.a)
                s == [self EXCEPT !.a = r.it]
            IN  Called("a", r.item,
                IF r.item = None THEN Ret(s, None)
                ELSE InnerJoinMapLoop(s, r.item[1][1], data_a, key_b, data_b))
      [] Cmp(key_a, key_b) = Equal -> Ret(self, Some(<<key_a, <<data_a, data_b>>>>))
      [] Cmp(key_a, key_b) = Greater ->
            LET r == IterNext(self.b)
                s == [self EXCEPT !.b = r.it]
            IN  Called("b", r.item,
                IF r.item = None THEN Ret(s, None)
                ELSE InnerJoinMapLoop(s, key_a, data_a, r.item[1][1], r.item[1][2])))

(* Variant of the loop: the Less arm returns None instead of advancing a. *)
InnerJoinMapLoopLessGivesUp(self, key_a, data_a, key_b, data_b) ==
    Compared(
    CASE Cmp(key_a, key_b) = Less -> Ret(self, None)
      [] Cmp(key_a, key_b) = Equal -> Ret(self, Some(<<key_a, <<data_a, data_b>>>>))
      [] Cmp(key_a, key_b) = Greater ->
            LET r == IterNext(self.b)
                s == [self EXCEPT !.b = r.it]
            IN  Called("b", r.item,
                IF r.item = None THEN Ret(s, None)
                ELSE InnerJoinMapLoop(s, key_a, data_a, r.item[1][1], r.item[1][2])))

(* The loop of InnerJoinMapIterator::next. *)
InnerJoinMapLoop(self, key_a, data_a, key_b, data_b) ==
    Compared(
    CASE Cmp(key_a, key_b) = Less ->
            LET r == IterNext(self.a)
                s == [self EXCEPT !.a = r.it]
            IN  Called("a", r.item,
                IF r.item = None THEN Ret(s, None)
                ELSE InnerJoinMapLoop(s, r.item[1][1], r.item[1][2], key_b, data_b))
      [] Cmp(key_a, key_b) = Equal -> Ret(self, Some(<<key_a, <<data_a, data_b>>>>))
      [] Cmp(key_a, key_b) = Greater ->
            LET r == IterNext(self.b)
                s == [self EXCEPT !.b = r.it]
            IN  Called("b", r.item,
                IF r.item = None THEN Ret(s, None)
                ELSE InnerJoinMapLoop(s, key_a, data_a, r.item[1][1], r.item[1][2])))

RECURSIVE InnerJoinMapSetLoop(_, _, _, _)

(* Variant of next(): the map is pulled first. *)
InnerJoinMapSetNextMapFirst(self) ==
    LET rm == IterNext(self.map)
        s1 == [self EXCEPT !.map = rm.it]
    IN  Called("map", rm.item,
        IF rm.item = None
        THEN Ret(s1, None)
        ELSE LET rs == IterNext(self.set)
                 s2 == [s1 EXCEPT !.set = rs.it]
             IN  Called("set", rs.item,
                 IF rs.item = None
                 THEN Ret(s2, None)
                 ELSE InnerJoinMapSetLoop(s2, rs.item[1], rm.item[1][1], rm.item[1][2])))

(* InnerJoinMapSetIterator::next, up to the loop: the set is pulled first. *)
InnerJoinMapSetNext(self) ==
    LET rs == IterNext(self.set)
        s1 == [self EXCEPT !.set = rs.it]
    IN  Called("set", rs.item,
        IF rs.item = None
        THEN Ret(s1, None)
        ELSE LET rm == IterNext(self.map)
                 s2 == [s1 EXCEPT !.map = rm.it]
             IN  Called("map", rm.item,
                 IF rm.item = None
                 THEN Ret(s2, None)
                 ELSE InnerJoinMapSetLoop(s2, rs.item[1], rm.item[1][1], rm.item[1][2])))

(* Variant of the loop: the Greater arm updates key_map but keeps data. *)
InnerJoinMapSetLoopStaleData(self, key_set, key_map, data) ==
    Compared(
    CASE Cmp(key_set, key_map) = Less ->
            LET r == IterNext(self.set)
                s == [self EXCEPT !.set = r.it]
            IN  Called("set", r.item,
                IF r.item = None THEN Ret(s, None)
                ELSE InnerJoinMapSetLoop(s, r.item[1], key_map, data))
      [] Cmp(key_set, key_map) = Equal -> Ret(self, Some(<<key_set, data>>))
      [] Cmp(key_set, key_map) = Greater ->
            LET r == IterNext(self.map)
                s == [self EXCEPT !.map = r.it]
            IN  Called("map", r.item,
                IF r.item = None THEN Ret(s, None)
                ELSE InnerJoinMapSetLoop(s, key_set, r.item[1][1], data)))

(* The loop of InnerJoinMapSetIterator::next. *)
InnerJoinMapSetLoop(self, key_set, key_map, data) ==
    Compared(
    CASE Cmp(key_set, key_map) = Less ->
            LET r == IterNext(self.set)
                s == [self EXCEPT !.set = r.it]
            IN  Called("set", r.item,
                IF r.item = None THEN Ret(s, None)
                ELSE InnerJoinMapSetLoop(s, r.item[1], key_map, data))
      [] Cmp(key_set, key_map) = Equal -> Ret(self, Some(<<key_set, data>>))
      [] Cmp(key_set, key_map) = Greater ->
            LET r == IterNext(self.map)
                s == [self EXCEPT !.map = r.it]
            IN  Called("map", r.item,
                IF r.item = None THEN Ret(s, None)
                ELSE InnerJoinMapSetLoop(s, key_set, r.item[1][1], r.item[1][2])))

(* Peekable::peek: fills the one-element buffer when it is empty and      *)
(* shows the buffered element without consuming it.                       *)
Peek(p) ==
    IF p.peeked # None
    THEN [p |-> p, item |-> p.peeked]
    ELSE LET r == IterNext(p.iter)
         IN  [p |-> [iter |-> r.it, peeked |-> r.item], item |-> r.item]

(* Variant of Peekable::next: it overlooks the buffered element. *)
PeekableNextSkipsBuffer(p) ==
    LET r == IterNext(p.iter)
    IN  [p |-> [p EXCEPT !.iter = r.it], item |-> r.item]

(* Peekable::next: hands out the buffered element if there is one, else   *)
(* the next element of the underlying iterator.                           *)
PeekableNext(p) ==
    IF p.peeked # None
    THEN [p |-> [p EXCEPT !.peeked = None], item |-> p.peeked]
    ELSE LET r == IterNext(p.iter)
         IN  [p |-> [p EXCEPT !.iter = r.it], item |-> r.item]

(* Variant of the match: the keys are compared the other way round. *)
WhichLeftFirst(pa, pb) ==
    CASE pa # None /\ pb # None -> Cmp(pa[1][1], pb[1][1])
      [] pa = None /\ pb # None -> Less
      [] pa # None /\ pb = None -> Greater
      [] pa = None /\ pb = None -> "Return"

(* Variant of the match: an exhausted left side selects the left side. *)
WhichExhaustedLeft(pa, pb) ==
    CASE pa # None /\ pb # None -> Cmp(pb[1][1], pa[1][1])
      [] pa = None /\ pb # None -> Greater
      [] pa # None /\ pb = None -> Greater
      [] pa = None /\ pb = None -> "Return"

(* Variant of the match: the join ends as soon as either side is empty,  *)
(* as the inner joins do.                                                 *)
WhichEitherEnds(pa, pb) ==
    CASE pa # None /\ pb # None -> Cmp(pb[1][1], pa[1][1])
      [] pa = None /\ pb # None -> "Return"
      [] pa # None /\ pb = None -> "Return"
      [] pa = None /\ pb = None -> "Return"

(* The match on the two peeks of OuterJoinIterator::next; "Return" is the *)
(* arm that returns None.                                                 *)
Which(pa, pb) ==
    CASE pa # None /\ pb # None -> Cmp(pb[1][1], pa[1][1])
      [] pa = None /\ pb # None -> Less
      [] pa # None /\ pb = None -> Greater
      [] pa = None /\ pb = None -> "Return"

(* Variant of the second match: the Greater arm puts the left value in   *)
(* the right slot.                                                        *)
OuterJoinTakeWrongSlot(self, which) ==
    CASE which = Equal ->
            LET l == PeekableNext(self.left)
                r == PeekableNext(self.right)
                s == [self EXCEPT !.left = l.p, !.right = r.p]
            IN  IF l.item = None THEN Panic([self EXCEPT !.left = l.p])
                ELSE IF r.item = None THEN Panic(s)
                ELSE Ret(s, Some(<<l.item[1][1],
                                   <<Some(l.item[1][2]), Some(r.item[1][2])>>>>))
      [] which = Less ->
            LET r == PeekableNext(self.right)
                s == [self EXCEPT !.right = r.p]
            IN  IF r.item = None THEN Panic(s)
                ELSE Ret(s, Some(<<r.item[1][1], <<None, Some(r.item[1][2])>>>>))
      [] which = Greater ->
            LET l == PeekableNext(self.left)
                s == [self EXCEPT !.left = l.p]
            IN  IF l.item = None THEN Panic(s)
                ELSE Ret(s, Some(<<l.item[1][1], <<None, Some(l.item[1][2])>>>>))

(* Variant of the second match: the Less arm advances the left side too  *)
(* and drops what it yields.                                              *)
OuterJoinTakeConsumesBoth(self, which) ==
    CASE which = Equal ->
            LET l == PeekableNext(self.left)
                r == PeekableNext(self.right)
                s == [self EXCEPT !.left = l.p, !.right = r.p]
            IN  IF l.item = None THEN Panic([self EXCEPT !.left = l.p])
                ELSE IF r.item = None THEN Panic(s)
                ELSE Ret(s, Some(<<l.item[1][1],
                                   <<Some(l.item[1][2]), Some(r.item[1][2])>>>>))
      [] which = Less ->
            LET r == PeekableNext(self.right)
                l == PeekableNext(self.left)
                s == [self EXCEPT !.right = r.p, !.left = l.p]
            IN  IF r.item = None THEN Panic(s)
                ELSE Ret(s, Some(<<r.item[1][1], <<None, Some(r.item[1][2])>>>>))
      [] which = Greater ->
            LET l == PeekableNext(self.left)
                s == [self EXCEPT !.left = l.p]
            IN  IF l.item = None THEN Panic(s)
                ELSE Ret(s, Some(<<l.item[1][1], <<Some(l.item[1][2]), None>>>>))

(* The second match of OuterJoinIterator::next, on the peeked iterators:  *)
(* expect() panics when the side it consumes yields None.                 *)
OuterJoinTake(self, which) ==
    CASE which = Equal ->
            LET l == PeekableNext(self.left)
                r == PeekableNext(self.right)
                s == [self EXCEPT !.left = l.p, !.right = r.p]
            IN  IF l.item = None THEN Panic([self EXCEPT !.left = l.p])
                ELSE IF r.item = None THEN Panic(s)
                ELSE Ret(s, Some(<<l.item[1][1],
                                   <<Some(l.item[1][2]), Some(r.item[1][2])>>>>))
      [] which = Less ->
            LET r == PeekableNext(self.right)
                s == [self EXCEPT !.right = r.p]
            IN  IF r.item = None THEN Panic(s)
                ELSE Ret(s, Some(<<r.item[1][1], <<None, Some(r.item[1][2])>>>>))
      [] which = Greater ->
            LET l == PeekableNext(self.left)
                s == [self EXCEPT !.left = l.p]
            IN  IF l.item = None THEN Panic(s)
                ELSE Ret(s, Some(<<l.item[1][1], <<Some(l.item[1][2]), None>>>>))

(* OuterJoinIterator::next. *)
OuterJoinNext(self) ==
    LET pl == Peek(self.left)
        pr == Peek(self.right)
        s == [self EXCEPT !.left = pl.p, !.right = pr.p]
        which == Which(pl.item, pr.item)
    IN  IF which = "Return" THEN Ret(s, None)
        ELSE IF pl.item # None /\ pr.item # None THEN Compared(OuterJoinTake(s, which))
        ELSE OuterJoinTake(s, which)

(* ---------------------------------------------------------------------- *)
(* The state machine: a caller builds one join and pulls it.               *)
(*   inA, inB, inC  the inputs the join was built from (inA the set and    *)
(*                  inB the map of a set-filtered map join)                *)
(*   join           the join iterator                                      *)
(*   out            what each pull so far has returned                     *)
(*   panicked       an expect() has failed                                 *)
(*   twin, twinOut  a second join over the same inputs and its results     *)
(*   calls          per pull, the calls of next() an inner join made on    *)
(*                  its inputs, in order                                   *)
(*   cmps           per pull, the number of key comparisons                *)
(* ---------------------------------------------------------------------- *)

NoJoin == [type |-> "None"]

Nones(s) == Cardinality({i \in 1..Len(s) : s[i] = None})

CanPull(o) == ~panicked /\ Nones(o) < MaxIdlePulls

Start(a, b, c, j) ==
    /\ inA = a
    /\ inB = b
    /\ inC = c
    /\ join = j
    /\ out = << >>
    /\ panicked = FALSE
    /\ twin = NoJoin
    /\ twinOut = << >>
    /\ calls = << >>
    /\ cmps = << >>

(* The joins over two inputs whose key sequences are drawn from KS. *)
StartPair(KS) ==
    \E ka \in KS, kb \in KS :
        LET sa == SetSource(ka)
            sb == SetSource(kb)
            ma == MapSource(MapOf("a", ka))
            mb == MapSource(MapOf("b", kb))
        IN  \/ /\ sa.type \in OrderedSetIterator /\ sb.type \in OrderedSetIterator
               /\ Start(ka, kb, << >>, SetInnerJoinSet(sa, sb))
            \/ /\ ma.type \in OrderedMapIterator /\ mb.type \in OrderedMapIterator
               /\ Start(ma.items, mb.items, << >>, MapInnerJoinMap(ma, mb))
            \/ /\ sa.type \in OrderedSetIterator /\ mb.type \in OrderedMapIterator
               /\ Start(ka, mb.items, << >>, SetInnerJoinMap(sa, mb))
            \/ /\ mb.type \in OrderedMapIterator /\ sa.type \in OrderedSetIterator
               /\ Start(ka, mb.items, << >>, MapInnerJoinSet(mb, sa))
            \/ /\ ma.type \in OrderedMapIterator /\ mb.type \in OrderedMapIterator
               /\ Start(ma.items, mb.items, << >>, MapOuterJoin(ma, mb))

(* a.inner_join_set(b).inner_join_set(c): the first join is an input of   *)
(* the second because its type implements OrderedSetIterator.             *)
StartChain ==
    \E ka \in OrderedKeySeqs, kb \in OrderedKeySeqs, kc \in OrderedKeySeqsC :
        LET ab == SetInnerJoinSet(SetSource(ka), SetSource(kb))
            sc == SetSource(kc)
        IN  /\ ab.type \in OrderedSetIterator /\ sc.type \in OrderedSetIterator
            /\ Start(ka, kb, kc, SetInnerJoinSet(ab, sc))

(* Inputs that keep the contract: strictly increasing keys. *)
Init == StartPair(OrderedKeySeqs) \/ StartChain

(* Inputs that break it: any order, duplicate keys. *)
InitAny == StartPair(AnyKeySeqs)

(* One pull of the join: join.next(). *)
Pull(r) ==
    /\ join' = r.it
    /\ out' = Append(out, r.item)
    /\ panicked' = r.panic
    /\ calls' = Append(calls, r.calls)
    /\ cmps' = Append(cmps, r.cmps)
    /\ UNCHANGED <<inA, inB, inC, twin, twinOut>>

NextInnerJoinSet ==
    /\ join.type = "InnerJoinSetIterator"
    /\ CanPull(out)
    /\ Pull(InnerJoinSetNext(join))

NextInnerJoinMap ==
    /\ join.type = "InnerJoinMapIterator"
    /\ CanPull(out)
    /\ Pull(InnerJoinMapNext(join))

NextInnerJoinMapSet ==
    /\ join.type = "InnerJoinMapSetIterator"
    /\ CanPull(out)
    /\ Pull(InnerJoinMapSetNext(join))

NextOuterJoin ==
    /\ join.type = "OuterJoinIterator"
    /\ CanPull(out)
    /\ Pull(OuterJoinNext(join))

Next == NextInnerJoinSet \/ NextInnerJoinMap \/ NextInnerJoinMapSet \/ NextOuterJoin

Spec == Init /\ [][Next]_vars

SpecAny == InitAny /\ [][Next]_vars

(* A caller that keeps pulling a join over inputs in any order. *)
InitLive == StartPair(LiveKeySeqs)

SpecAnyLive == InitLive /\ [][Next]_vars /\ WF_vars(Next)

(* A caller that builds the set-filtered map join from both sides, over   *)
(* the same set and map, and pulls the two joins independently.           *)
InitSym ==
    \E ks \in AnyKeySeqs, km \in AnyKeySeqs :
        LET s == SetSource(ks)
            m == MapSource(MapOf("b", km))
        IN  /\ s.type \in OrderedSetIterator /\ m.type \in OrderedMapIterator
            /\ inA = ks
            /\ inB = m.items
            /\ inC = << >>
            /\ join = SetInnerJoinMap(s, m)
            /\ out = << >>
            /\ panicked = FALSE
            /\ twin = MapInnerJoinSet(m, s)
            /\ twinOut = << >>
            /\ calls = << >>
            /\ cmps = << >>

(* One pull of the join built from the map side: twin.next(). *)
NextTwin ==
    /\ twin.type = "InnerJoinMapSetIterator"
    /\ CanPull(twinOut)
    /\ LET r == InnerJoinMapSetNext(twin)
       IN  /\ twin' = r.it
           /\ twinOut' = Append(twinOut, r.item)
    /\ UNCHANGED <<inA, inB, inC, join, out, panicked, calls, cmps>>

NextSym == NextInnerJoinMapSet \/ NextTwin

SpecSym == InitSym /\ [][NextSym]_vars

(* ---------------------------------------------------------------------- *)
(* What the claims speak about.                                            *)
(* ---------------------------------------------------------------------- *)

(* The elements emitted so far, in order, and whether a pull has returned *)
(* end-of-sequence.                                                       *)
ItemsOf(o) ==
    LET e == SelectSeq(o, LAMBDA x : x # None)
    IN  [i \in 1..Len(e) |-> e[i][1]]

Items == ItemsOf(out)

Drained == Nones(out) > 0

NoRepeat(s) == Len(s) = Cardinality(Range(s))

IsChain == join.type = "InnerJoinSetIterator" /\ join.a.type = "InnerJoinSetIterator"
IsSetSet == join.type = "InnerJoinSetIterator" /\ join.a.type = "SetSource"
IsMapMap == join.type = "InnerJoinMapIterator"
IsMapSet == join.type = "InnerJoinMapSetIterator"
IsOuter == join.type = "OuterJoinIterator"

(* The keys emitted so far. *)
EmittedKeys == IF join.type = "InnerJoinSetIterator" THEN Items ELSE KeysOf(Items)

(* C1: set-set inner join of two strictly increasing key sequences: no    *)
(* key outside the intersection is ever emitted, and once the join has    *)
(* returned end-of-sequence it has emitted every key of the intersection, *)
(* each exactly once.                                                     *)
C1_SetSetIntersection ==
    (IsSetSet /\ StrictlyIncreasing(inA) /\ StrictlyIncreasing(inB)) =>
        /\ Range(Items) \subseteq Range(inA) \cap Range(inB)
        /\ NoRepeat(Items)
        /\ Drained => Range(Items) = Range(inA) \cap Range(inB)

C1_Witness ==
    /\ IsSetSet /\ Drained
    /\ Len(Items) >= 2
    /\ Len(inA) > Len(Items) /\ Len(inB) > Len(Items)

(* The elements a map-map inner join has to emit: one per common key,     *)
(* the left value first.                                                  *)
MapMapExpected ==
    {<<inA[i][1], <<inA[i][2], inB[j][2]>>>> :
        <<i, j>> \in {ij \in (1..Len(inA)) \X (1..Len(inB)) : inA[ij[1]][1] = inB[ij[2]][1]}}

(* C2: map-map inner join of two maps with strictly increasing keys:      *)
(* drained, it has emitted exactly one (k, (va, vb)) for every key k of   *)
(* both inputs, va the left map's value and vb the right map's, and       *)
(* nothing else is ever emitted.                                          *)
C2_MapMapIntersection ==
    (IsMapMap /\ StrictlyIncreasing(KeysOf(inA)) /\ StrictlyIncreasing(KeysOf(inB))) =>
        /\ Range(Items) \subseteq MapMapExpected
        /\ NoRepeat(Items)
        /\ Drained => Range(Items) = MapMapExpected

C2_Witness ==
    /\ IsMapMap /\ Drained
    /\ Len(Items) >= 2
    /\ Len(inA) > Len(Items) /\ Len(inB) > Len(Items)
    /\ \E i \in 1..Len(Items) : Items[i][2][1][2] # Items[i][2][2][2]

(* C3: set-filtered map join of a strictly increasing set and a map with  *)
(* strictly increasing keys: only entries of the map whose key is in the  *)
(* set are emitted, with the map's own value, and drained the join has    *)
(* emitted every such entry exactly once.                                 *)
C3_MapSetFilter ==
    (IsMapSet /\ StrictlyIncreasing(inA) /\ StrictlyIncreasing(KeysOf(inB))) =>
        /\ Range(Items) \subseteq {e \in Range(inB) : e[1] \in Range(inA)}
        /\ NoRepeat(Items)
        /\ Drained => Range(Items) = {e \in Range(inB) : e[1] \in Range(inA)}

C3_Witness ==
    /\ IsMapSet /\ Drained
    /\ Len(Items) >= 2
    /\ \E e \in Range(inB) : e[1] \notin Range(inA)
    /\ \E k \in Range(inA) : k \notin Range(KeysOf(inB))

(* The slot of an outer-join element for key k on the side of map m. *)
Slot(m, k) ==
    IF \E i \in 1..Len(m) : m[i][1] = k
    THEN Some(m[CHOOSE i \in 1..Len(m) : m[i][1] = k][2])
    ELSE None

C5_EmittedKeysIncrease == StrictlyIncreasing(EmittedKeys)

C5_Witness ==
    /\ IsOuter
    /\ Len(Items) >= 4
    /\ \E i \in 1..Len(Items) : Items[i][2][1] = None
    /\ \E i \in 1..Len(Items) : Items[i][2][2] = None

(* C6: a.inner_join_set(b).inner_join_set(c) over three strictly          *)
(* increasing key sequences: drained, it has emitted exactly the keys of  *)
(* all three inputs, in increasing order.                                 *)
C6_ChainIntersection ==
    (IsChain /\ StrictlyIncreasing(inA) /\ StrictlyIncreasing(inB)
             /\ StrictlyIncreasing(inC)) =>
        /\ Range(Items) \subseteq Range(inA) \cap Range(inB) \cap Range(inC)
        /\ StrictlyIncreasing(Items)
        /\ Drained => Range(Items) = Range(inA) \cap Range(inB) \cap Range(inC)

C6_Witness ==
    /\ IsChain /\ Drained
    /\ Len(Items) >= 2
    /\ (Range(inA) \cap Range(inB)) \ Range(inC) # {}
    /\ (Range(inA) \cap Range(inC)) \ Range(inB) # {}

(* C7: whatever the inputs, once a pull of a join has returned            *)
(* end-of-sequence every later pull has returned end-of-sequence too.     *)
C7_ExhaustionMonotone ==
    \A i \in 1..Len(out) : \A j \in i..Len(out) : out[i] = None => out[j] = None

(* The join is exhausted, has been pulled again, and its first input      *)
(* still had elements to give on the pull after the first None.           *)
C7_Witness ==
    /\ IsMapMap
    /\ Nones(out) >= 2
    /\ join.a.items # << >>

(* C10: no pull of any join, over sorted or unsorted inputs, fails an     *)
(* expect("no value found").                                              *)
C10_NoPanic == ~panicked

C10_Witness ==
    /\ IsOuter /\ Drained
    /\ ~StrictlyIncreasing(KeysOf(inA))
    /\ ~NoRepeat(KeysOf(inB))
    /\ Len(Items) >= 4

(* C8: the set-filtered map join built from the set side and the one      *)
(* built from the map side, over the same set and map, return the same on *)
(* every pull and, after equally many pulls, have consumed the same.      *)
C8_BothDirectionsAgree ==
    /\ \A i \in 1..Len(out) : i <= Len(twinOut) => out[i] = twinOut[i]
    /\ Len(out) = Len(twinOut) => join = twin

C8_Witness ==
    /\ twin.type = "InnerJoinMapSetIterator"
    /\ Len(out) = Len(twinOut)
    /\ Len(ItemsOf(out)) >= 2
    /\ Nones(out) >= 1
    /\ Len(inA) > 2

(* C9: every join, the outer join included, implements OrderedMapIterator *)
(* or OrderedSetIterator, so that it can be an input of a further join.   *)
C9_EveryJoinRejoinable == join.type \in OrderedMapIterator \cup OrderedSetIterator

(* What a peekable input of the outer join still has to give: the         *)
(* buffered element, if any, and what its iterator has left.              *)
Remaining(p) == p.peeked \o p.iter.items

Last(s) == s[Len(s)]

C12_OuterEndsIffBothEmpty ==
    [][(IsOuter /\ out' # out) =>
          ((Last(out') = None) <=>
              (Remaining(join.left) = << >> /\ Remaining(join.right) = << >>))]_vars

C12_Witness ==
    /\ IsOuter /\ Drained
    /\ Len(inB) >= 1
    /\ Len(inA) >= Len(inB) + 2
    /\ Len(Items) = Len(inA) + Len(inB)

(* C13: a pull of the outer join that emits a key of one side only takes  *)
(* the head element of that side and leaves the other side as it was; a   *)
(* pull that emits both slots takes the head element of each side.        *)
C13_OuterFrame ==
    [][(IsOuter /\ out' # out /\ Last(out') # None) =>
          LET e == Last(out')[1]
              l == Remaining(join.left)
              r == Remaining(join.right)
              l2 == Remaining(join'.left)
              r2 == Remaining(join'.right)
          IN  /\ (e[2][1] # None /\ e[2][2] = None) =>
                    /\ l # << >> /\ l2 = Tail(l) /\ r2 = r
                    /\ e = <<l[1][1], <<Some(l[1][2]), None>>>>
              /\ (e[2][1] = None /\ e[2][2] # None) =>
                    /\ r # << >> /\ r2 = Tail(r) /\ l2 = l
                    /\ e = <<r[1][1], <<None, Some(r[1][2])>>>>
              /\ (e[2][1] # None /\ e[2][2] # None) =>
                    /\ l # << >> /\ l2 = Tail(l)
                    /\ r # << >> /\ r2 = Tail(r)
                    /\ e = <<l[1][1], <<Some(l[1][2]), Some(r[1][2])>>>>]_vars

(* A one-sided element has been emitted while the other side had its head *)
(* buffered, and that head came out on a later pull.                      *)
C13_Witness ==
    /\ IsOuter
    /\ Len(Items) >= 3
    /\ Items[1][2][2] = None
    /\ Items[2][2][1] = None
    /\ Items[3][2][1] # None /\ Items[3][2][2] # None

(* The emitted elements with a left slot, as elements of the left input,  *)
(* and the values of the emitted elements with a right slot.              *)
LeftPart ==
    LET e == SelectSeq(Items, LAMBDA x : x[2][1] # None)
    IN  [i \in 1..Len(e) |-> <<e[i][1], e[i][2][1][1]>>]

RightValues ==
    LET e == SelectSeq(Items, LAMBDA x : x[2][2] # None)
    IN  [i \in 1..Len(e) |-> e[i][2][2][1]]

ValuesOf(m) == [i \in 1..Len(m) |-> m[i][2]]

Max(x, y) == IF x >= y THEN x ELSE y

AfterKey(m, ks, k) ==
    LET i == CHOOSE n \in 1..Len(ks) : ks[n] = k
    IN  SubSeq(m, i + 1, Len(m))

IsInner == IsSetSet \/ IsMapMap \/ IsMapSet

(* What next() gives on a container iterator that has m left. *)
HeadOption(m) == IF m = << >> THEN None ELSE Some(Head(m))

(* The two inputs of an inner join as they are now, the one next() pulls  *)
(* first and the one it pulls second.                                     *)
FirstInput(j) == IF j.type = "InnerJoinMapSetIterator" THEN j.set ELSE j.a
SecondInput(j) == IF j.type = "InnerJoinMapSetIterator" THEN j.map ELSE j.b

KeysOfFirst == IF IsMapMap THEN KeysOf(inA) ELSE inA
KeysOfSecond == IF IsSetSet THEN inB ELSE KeysOf(inB)

(* C15: right after a pull of an inner join over strictly increasing      *)
(* inputs has emitted key k, each input has been consumed up to and       *)
(* including its element with key k and no further, and the pull after   *)
(* it starts by pulling the elements that follow the match, from the      *)
(* first input and then from the second.                                  *)
C15_MatchConsumesBothOnly ==
    /\ (IsInner /\ out # << >> /\ Last(out) # None) =>
          LET k == Last(EmittedKeys)
          IN  /\ k \in Range(KeysOfFirst) /\ k \in Range(KeysOfSecond)
              /\ FirstInput(join).items = AfterKey(inA, KeysOfFirst, k)
              /\ SecondInput(join).items = AfterKey(inB, KeysOfSecond, k)
    /\ IsInner =>
          \A p \in 1..(Len(out) - 1) :
              out[p] # None =>
                  LET k == IF IsSetSet THEN out[p][1] ELSE out[p][1][1]
                      ra == AfterKey(inA, KeysOfFirst, k)
                      rb == AfterKey(inB, KeysOfSecond, k)
                  IN  /\ calls[p + 1][1] = <<IF IsMapSet THEN "set" ELSE "a", HeadOption(ra)>>
                      /\ ra # << >> =>
                            calls[p + 1][2] = <<IF IsMapSet THEN "map" ELSE "b", HeadOption(rb)>>

(* The second of two matches has just been emitted, with unmatched        *)
(* elements skipped before it and elements left after it on both sides.   *)
C15_Witness ==
    /\ IsMapMap
    /\ Len(Items) = 2 /\ Last(out) # None
    /\ Len(inA) = 4 /\ join.a.items # << >>
    /\ Len(inB) = 4 /\ join.b.items # << >>

RECURSIVE Flat(_)
Flat(ss) == IF ss = << >> THEN << >> ELSE Head(ss) \o Flat(Tail(ss))

RECURSIVE Sum(_)
Sum(ns) == IF ns = << >> THEN 0 ELSE Head(ns) + Sum(Tail(ns))

(* The elements a sequence of calls of next() has pulled from an input,   *)
(* and the number of elements a sequence of calls has pulled.             *)
PulledFrom(input, cs) ==
    LET c == SelectSeq(cs, LAMBDA x : x[1] = input /\ x[2] # None)
    IN  [i \in 1..Len(c) |-> c[i][2][1]]

Pulled(cs) == Len(SelectSeq(cs, LAMBDA x : x[2] # None))

FirstName == IF IsMapSet THEN "set" ELSE "a"
SecondName == IF IsMapSet THEN "map" ELSE "b"

(* C14: in a pull of an inner join, a call of next() on an input that     *)
(* returns None is the last call the pull makes on either input, and the  *)
(* pull returns None.                                                     *)
C14_InnerEndsAtFirstNone ==
    IsInner =>
        \A p \in 1..Len(calls) : \A i \in 1..Len(calls[p]) :
            calls[p][i][2] = None => (i = Len(calls[p]) /\ out[p] = None)

(* The first input ran out inside the loop while the second still had     *)
(* elements, which are still there after the pull.                        *)
C14_Witness ==
    /\ IsSetSet
    /\ calls # << >>
    /\ Len(Last(calls)) >= 3
    /\ Last(Last(calls)) = <<"a", None>>
    /\ Len(join.b.items) >= 2

(* C16: over any sequence of pulls of an inner join, the elements pulled  *)
(* from each input are an initial part of that input, each pulled once,   *)
(* and the comparisons made so far are no more than the elements pulled   *)
(* so far, which are no more than |A| + |B|.                              *)
C16_SinglePassLinear ==
    IsInner =>
        LET a == PulledFrom(FirstName, Flat(calls))
            b == PulledFrom(SecondName, Flat(calls))
        IN  /\ Len(a) <= Len(inA) /\ a = SubSeq(inA, 1, Len(a))
            /\ Len(b) <= Len(inB) /\ b = SubSeq(inB, 1, Len(b))
            /\ FirstInput(join).items = SubSeq(inA, Len(a) + 1, Len(inA))
            /\ SecondInput(join).items = SubSeq(inB, Len(b) + 1, Len(inB))
            /\ Sum(cmps) <= Len(a) + Len(b)
            /\ Len(a) + Len(b) <= Len(inA) + Len(inB)

C16_Witness ==
    /\ IsMapMap /\ Drained
    /\ Len(out) >= 3
    /\ Sum(cmps) >= 4
    /\ Pulled(Flat(calls)) = Len(inA) + Len(inB)

(* C17: in a pull of an inner join every loop iteration but the last has  *)
(* pulled an element, so that a pull makes at most |A| + |B| iterations,  *)
(* and a join that is pulled again and again returns end-of-sequence at   *)
(* some point (it does not panic), whatever the order of its inputs.      *)
C17_PullsTerminate ==
    /\ [](IsInner =>
            \A p \in 1..Len(cmps) :
                /\ cmps[p] >= 1 => Pulled(calls[p]) = cmps[p] + 1
                /\ cmps[p] <= Len(inA) + Len(inB))
    /\ <>(Drained /\ ~panicked)

C17_Witness ==
    /\ IsMapSet /\ Drained
    /\ ~StrictlyIncreasing(inA)
    /\ ~StrictlyIncreasing(KeysOf(inB))
    /\ \E p \in 1..Len(cmps) : cmps[p] >= 2

(* C19: once an inner join has returned end-of-sequence, a further pull   *)
(* returns end-of-sequence, takes nothing from the input next() pulls     *)
(* second and at most one element from the input it pulls first.          *)
C19_PullsAfterExhaustion ==
    [][(IsInner /\ Drained /\ out' # out) =>
          /\ Last(out') = None
          /\ SecondInput(join').items = SecondInput(join).items
          /\ Len(FirstInput(join').items) >= Len(FirstInput(join).items) - 1]_vars

(* A pull after exhaustion that took an element from the first input. *)
C19_Witness ==
    /\ IsMapSet
    /\ Nones(out) >= 2
    /\ Len(Last(calls)) = 2
    /\ join.map.items = << >>

====
